---- MODULE Spec2Model ----
(***************************************************************************)
(* PDF-to-Audiobook converter (src/pdf_to_audiobook.py): the extraction    *)
(* and conversion pipeline of PDFToAudiobookApp as a state machine.        *)
(*                                                                         *)
(* Strings are sequences of one-character strings.  Offsets into a text    *)
(* are Python offsets (0-based); text[i] in Python is text[i + 1] here.    *)
(* The main thread runs one UI handler at a time; each background thread   *)
(* (threading.Thread(target=job)) advances one step at a time and the      *)
(* steps of different threads interleave freely.                           *)
(***************************************************************************)
EXTENDS Integers, Sequences, FiniteSets, TLC

VARIABLES
    doc,          \* the file at pdf_path: its pages' raw text, as page.get_text() returns it
    readable,     \* whether fitz.open(pdf_path) succeeds
    player,       \* self.player and the pygame mixer it drives
    pdf_path,     \* self.pdf_path: "" (None) or the selected path
    pages_entry,  \* the text of self.pages_entry
    chunk_var,    \* self.chunk_var
    engine_var,   \* self.engine_var
    tts_manager,  \* self.tts_manager.engine_name
    extracted,    \* self.extracted: sequence of <<page_no, text>>
    pages_list,   \* self.pages_list: the listbox rows, each the page number it shows
    messagebox,   \* title of the last dialog shown by a handler ("" when none)
    ethreads,     \* the extraction threads started so far, in start order
    jobs          \* the conversion threads started so far, in start order

vars == <<doc, readable, player, pdf_path, pages_entry, chunk_var, engine_var, tts_manager,
          extracted, pages_list, messagebox, ethreads, jobs>>

---------------------------------------------------------------------------
(* Bounds of the model.                                                    *)

\* longest raw page text of a document
MaxRawLen == 3
\* longest cleaned page text handed to the chunking loop
MaxLen == 6
\* largest chunk size drawn for the chunking loop
MaxChunk == 4
\* longest page-range expression typed into the entry
MaxExprLen == 5
\* conversion threads the user starts in one run
MaxJobs == 2
\* length of the page text of the 5000/3500 scenario
ScenarioLen == 5000
\* default of the chunk-size spinbox
DefaultChunk == 3500

---------------------------------------------------------------------------
(* Python string primitives.                                               *)

Min(a, b) == IF a < b THEN a ELSE b
Max(a, b) == IF a > b THEN a ELSE b
SetMax(S) == CHOOSE x \in S : \A y \in S : y <= x
SetMin(S) == CHOOSE x \in S : \A y \in S : x <= y

\* str.isspace() / the regex class \s, over the characters of the model
IsSpace(c) == c \in {" ", "\n", "\f"}

\* text[start:end] for 0 <= start, end <= len(text)
Slice(text, start, end) == SubSeq(text, start + 1, end)

\* str.strip()
strip(s) ==
    IF \A i \in 1..Len(s) : IsSpace(s[i]) THEN <<>>
    ELSE LET first == CHOOSE i \in 1..Len(s) :
                        ~IsSpace(s[i]) /\ \A j \in 1..(i - 1) : IsSpace(s[j])
             last  == CHOOSE i \in 1..Len(s) :
                        ~IsSpace(s[i]) /\ \A j \in (i + 1)..Len(s) : IsSpace(s[j])
         IN  SubSeq(s, first, last)

\* text.find(ch, start, end): the lowest such offset (rfind mistaken for find)
find(text, ch, start, end) ==
    LET hits == {i \in start..(end - 1) : text[i + 1] = ch}
    IN  IF hits = {} THEN -1 ELSE SetMin(hits)

\* text.rfind(ch, start, end): the highest offset in [start, end) holding ch, or -1
rfind(text, ch, start, end) ==
    LET hits == {i \in start..(end - 1) : text[i + 1] = ch}
    IN  IF hits = {} THEN -1 ELSE SetMax(hits)

\* sep.join(parts)
RECURSIVE join(_, _)
join(sep, parts) ==
    IF parts = <<>> THEN <<>>
    ELSE IF Len(parts) = 1 THEN parts[1]
    ELSE parts[1] \o sep \o join(sep, Tail(parts))

\* pr.split('-')
RECURSIVE split(_)
split(s) ==
    LET dashes == {i \in 1..Len(s) : s[i] = "-"}
    IN  IF dashes = {} THEN <<s>>
        ELSE LET k == SetMin(dashes)
             IN  <<SubSeq(s, 1, k - 1)>> \o split(SubSeq(s, k + 1, Len(s)))

Digits == {"0", "1", "2", "3", "4", "5", "6", "7", "8", "9"}
DigitVal(c) ==
    CASE c = "0" -> 0 [] c = "1" -> 1 [] c = "2" -> 2 [] c = "3" -> 3 [] c = "4" -> 4
      [] c = "5" -> 5 [] c = "6" -> 6 [] c = "7" -> 7 [] c = "8" -> 8 [] c = "9" -> 9

RECURSIVE Decimal(_)
Decimal(ds) ==
    IF ds = <<>> THEN 0 ELSE 10 * Decimal(SubSeq(ds, 1, Len(ds) - 1)) + DigitVal(ds[Len(ds)])

\* int(s) for s without sign or underscore (a part of split('-') holds no '-'):
\* surrounding whitespace is ignored, the rest must be one or more digits;
\* ok = FALSE stands for ValueError
int(s) ==
    LET t == strip(s)
    IN  IF t # <<>> /\ \A i \in 1..Len(t) : t[i] \in Digits
        THEN [ok |-> TRUE, val |-> Decimal(t)]
        ELSE [ok |-> FALSE, val |-> 0]

---------------------------------------------------------------------------
(* clean_text (src lines 28-33).                                           *)

\* End of the match of \n\s*\n+ anchored at s[1] = "\n": \s* is greedy over the
\* whitespace run that follows and backs off to the run's last newline, where
\* \n+ ends; 0 when the run holds no newline (no match).
BlankMatchEnd(s) ==
    LET run == SetMax({k \in 1..Len(s) : \A i \in 2..k : IsSpace(s[i])})
        nls == {k \in 2..run : s[k] = "\n"}
    IN  IF nls = {} THEN 0 ELSE SetMax(nls)

\* re.sub(r'\n\s*\n+', '\n\n', s): leftmost non-overlapping matches
RECURSIVE SubBlankLines(_)
SubBlankLines(s) ==
    IF s = <<>> THEN <<>>
    ELSE IF Head(s) = "\n" /\ BlankMatchEnd(s) > 0
         THEN <<"\n", "\n">> \o SubBlankLines(SubSeq(s, BlankMatchEnd(s) + 1, Len(s)))
         ELSE <<Head(s)>> \o SubBlankLines(Tail(s))

\* s.replace('\x0c', '')
RemoveFormFeed(s) == SelectSeq(s, LAMBDA c : c # "\f")

clean_text(s) == strip(RemoveFormFeed(SubBlankLines(s)))

---------------------------------------------------------------------------
(* extract_text_from_pdf (src lines 35-52).                                *)

\* the page appended whether or not its text is empty (the test of line 43 left out)
PageEntryKeepEmpty(d, i) == << <<i + 1, clean_text(strip(d[i + 1]))>> >>

\* One iteration of the page loop (lines 41-50): the entry appended for the
\* page at 0-based index i, or nothing when its stripped text is empty.
PageEntry(d, i) ==
    LET text == strip(d[i + 1])
    IN  IF text # <<>> THEN << <<i + 1, clean_text(text)>> >> ELSE <<>>

\* each page put at the front of the list instead of its end
RECURSIVE PagesFromPrepend(_, _, _)
PagesFromPrepend(d, first, last) ==
    IF first > last THEN <<>>
    ELSE PagesFromPrepend(d, first + 1, last) \o
         (IF strip(d[first + 1]) # <<>>
          THEN << <<first + 1, clean_text(strip(d[first + 1]))>> >> ELSE <<>>)

\* for i in range(first, last + 1), appending in loop order
RECURSIVE PagesFrom(_, _, _)
PagesFrom(d, first, last) ==
    IF first > last THEN <<>> ELSE PageEntry(d, first) \o PagesFrom(d, first + 1, last)

\* the requested indices used as they are (max and min of lines 37-38 left out)
PageBoundsUnclamped(d, rng) ==
    [first |-> IF rng.given THEN rng.start_page ELSE 0,
     last  |-> IF rng.given THEN rng.end_page ELSE Len(d) - 1]

\* Lines 37-38: the first and last 0-based index of the page loop;
\* rng.given = FALSE stands for start_page = end_page = None
PageBounds(d, rng) ==
    [first |-> IF rng.given THEN Max(0, rng.start_page) ELSE 0,
     last  |-> IF rng.given THEN Min(Len(d) - 1, rng.end_page) ELSE Len(d) - 1]

\* the indices passed to doc.load_page (lines 40-41), in call order
LoadedIndices(d, rng) ==
    [k \in 1..(PageBounds(d, rng).last - PageBounds(d, rng).first + 1) |->
        PageBounds(d, rng).first + k - 1]

\* doc.load_page(i) finds the page: i is an index of the document
PageExists(d, i) == i \in 0..(Len(d) - 1)

extract_text_from_pdf(d, rng) ==
    PagesFrom(d, PageBounds(d, rng).first, PageBounds(d, rng).last)

---------------------------------------------------------------------------
(* PDFToAudiobookApp.extract_clicked (src lines 247-278).                  *)

NoRange == [ok |-> TRUE, given |-> FALSE, start_page |-> 0, end_page |-> 0]
BadRange == [ok |-> FALSE, given |-> FALSE, start_page |-> 0, end_page |-> 0]

\* the 1-indexed number taken as the 0-indexed one
StartPageSame(n) == n

\* start_page of a one-part or two-part expression (lines 259, 262)
StartPageOf(n) == n - 1

\* Lines 252-266: ok = FALSE when int() raised and the handler returned.
parse_range(entry) ==
    LET pr == strip(entry)
        parts == split(pr)
        first == int(parts[1])
    IN  IF pr = <<>> THEN NoRange
        ELSE IF Len(parts) = 2
             THEN LET second == int(parts[2])
                  IN  IF first.ok /\ second.ok
                      THEN [ok |-> TRUE, given |-> TRUE,
                            start_page |-> StartPageOf(first.val), end_page |-> second.val - 1]
                      ELSE BadRange
             ELSE IF first.ok
                  THEN [ok |-> TRUE, given |-> TRUE,
                        start_page |-> StartPageOf(first.val),
                        end_page |-> StartPageOf(first.val)]
                  ELSE BadRange

\* The handler on the main thread; at most maxThreads extraction threads are
\* started in one run.
extract_clicked(maxThreads) ==
    /\ Len(ethreads) < maxThreads
    /\ IF pdf_path = ""
       THEN /\ messagebox' = "No PDF"
            /\ UNCHANGED ethreads
       ELSE IF ~parse_range(pages_entry).ok
            THEN /\ messagebox' = "Invalid range"
                 /\ UNCHANGED ethreads
            ELSE /\ ethreads' = Append(ethreads,
                        [pc |-> "delete", rng |-> parse_range(pages_entry),
                         path |-> "", loaded |-> <<>>, result |-> <<>>,
                         iter |-> <<>>, k |-> 0, log |-> <<>>])
                 /\ UNCHANGED messagebox
    /\ UNCHANGED <<doc, readable, player, pdf_path, pages_entry, chunk_var, engine_var, tts_manager,
                   extracted, pages_list, jobs>>

\* The log lines of extract_text_from_pdf (lines 46-50), one per page in range
RECURSIVE PageLog(_, _, _)
PageLog(d, first, last) ==
    IF first > last THEN <<>>
    ELSE <<[ev |-> IF strip(d[first + 1]) # <<>> THEN "chars" ELSE "skipped",
            page |-> first + 1]>> \o PageLog(d, first + 1, last)

\* job, line 270
ExtractDelete(t) ==
    /\ ethreads[t].pc = "delete"
    /\ pages_list' = <<>>
    /\ ethreads' = [ethreads EXCEPT ![t].pc = "extract"]
    /\ UNCHANGED <<doc, readable, player, pdf_path, pages_entry, chunk_var, engine_var, tts_manager,
                   extracted, messagebox, jobs>>

\* extract_text_from_pdf runs to its end: the file opens and every page loads
CanExtract(t) ==
    /\ readable
    /\ \A k \in 1..Len(LoadedIndices(doc, ethreads[t].rng)) :
           PageExists(doc, LoadedIndices(doc, ethreads[t].rng)[k])

\* job, line 271: the file at self.pdf_path is opened and read
ExtractRun(t) ==
    /\ ethreads[t].pc = "extract"
    /\ CanExtract(t)
    /\ extracted' = extract_text_from_pdf(doc, ethreads[t].rng)
    /\ ethreads' = [ethreads EXCEPT
            ![t].pc = "iter",
            ![t].path = pdf_path,
            ![t].loaded = LoadedIndices(doc, ethreads[t].rng),
            ![t].result = extract_text_from_pdf(doc, ethreads[t].rng),
            ![t].log = PageLog(doc, PageBounds(doc, ethreads[t].rng).first,
                               PageBounds(doc, ethreads[t].rng).last)]
    /\ UNCHANGED <<doc, readable, player, pdf_path, pages_entry, chunk_var, engine_var, tts_manager,
                   pages_list, messagebox, jobs>>

\* job, lines 271 and 276-277: fitz.open or doc.load_page raises; the error
\* is logged and self.extracted keeps its value
ExtractFail(t) ==
    /\ ethreads[t].pc = "extract"
    /\ ~CanExtract(t)
    /\ ethreads' = [ethreads EXCEPT
            ![t].pc = "done",
            ![t].path = pdf_path,
            ![t].loaded = IF readable THEN LoadedIndices(doc, ethreads[t].rng) ELSE <<>>,
            ![t].log = <<[ev |-> "error", page |-> 0]>>]
    /\ UNCHANGED <<doc, readable, player, pdf_path, pages_entry, chunk_var, engine_var,
                   tts_manager, extracted, pages_list, messagebox, jobs>>

\* job, line 272: the for statement takes its iterator from self.extracted
ExtractIter(t) ==
    /\ ethreads[t].pc = "iter"
    /\ ethreads' = [ethreads EXCEPT ![t].pc = "insert", ![t].iter = extracted, ![t].k = 0]
    /\ UNCHANGED <<doc, readable, player, pdf_path, pages_entry, chunk_var, engine_var, tts_manager,
                   extracted, pages_list, messagebox, jobs>>

\* job, lines 272-274: one row per page of the iterated list
ExtractInsert(t) ==
    /\ ethreads[t].pc = "insert"
    /\ ethreads[t].k < Len(ethreads[t].iter)
    /\ pages_list' = Append(pages_list, ethreads[t].iter[ethreads[t].k + 1][1])
    /\ ethreads' = [ethreads EXCEPT ![t].k = @ + 1]
    /\ UNCHANGED <<doc, readable, player, pdf_path, pages_entry, chunk_var, engine_var, tts_manager,
                   extracted, messagebox, jobs>>

\* job, line 275
ExtractDone(t) ==
    /\ ethreads[t].pc = "insert"
    /\ ethreads[t].k = Len(ethreads[t].iter)
    /\ ethreads' = [ethreads EXCEPT
            ![t].pc = "done",
            ![t].log = Append(@, [ev |-> "complete", page |-> Len(extracted)])]
    /\ UNCHANGED <<doc, readable, player, pdf_path, pages_entry, chunk_var, engine_var, tts_manager,
                   extracted, pages_list, messagebox, jobs>>

---------------------------------------------------------------------------
(* Player (src lines 101-133).  music is the state of pygame.mixer.music:  *)
(* "stopped", "playing" or "paused".  A file page_<n>.mp3 (line 323) is    *)
(* written n, and 0 is None.                                               *)

\* Player.__init__ (lines 102-106)
NoPlayback == [current |-> 0, paused |-> FALSE, music |-> "stopped", said |-> ""]

\* Player.play (lines 108-118) of an existing, loadable file: music.load and
\* music.play start it from the beginning
play(filepath) ==
    /\ player' = [player EXCEPT !.music = "playing", !.current = filepath,
                                 !.said = "Playing"]
    /\ UNCHANGED <<doc, readable, pdf_path, pages_entry, chunk_var, engine_var,
                   tts_manager, extracted, pages_list, messagebox, ethreads, jobs>>

\* Player.stop (lines 120-123)
stop ==
    /\ player' = [player EXCEPT !.music = "stopped", !.current = 0, !.said = "Stopped"]
    /\ UNCHANGED <<doc, readable, pdf_path, pages_entry, chunk_var, engine_var,
                   tts_manager, extracted, pages_list, messagebox, ethreads, jobs>>

\* Player.pause (lines 125-133): music.pause() halts playing music and
\* music.unpause() resumes paused music; each does nothing otherwise
pause ==
    /\ player' = IF ~player.paused
                  THEN [player EXCEPT
                           !.music = IF @ = "playing" THEN "paused" ELSE @,
                           !.paused = TRUE, !.said = "Paused"]
                  ELSE [player EXCEPT
                           !.music = IF @ = "paused" THEN "playing" ELSE @,
                           !.paused = FALSE, !.said = "Resumed"]
    /\ UNCHANGED <<doc, readable, pdf_path, pages_entry, chunk_var, engine_var,
                   tts_manager, extracted, pages_list, messagebox, ethreads, jobs>>

\* the playing file reaches its end
MusicEnds ==
    /\ player.music = "playing"
    /\ player' = [player EXCEPT !.music = "stopped"]
    /\ UNCHANGED <<doc, readable, pdf_path, pages_entry, chunk_var, engine_var,
                   tts_manager, extracted, pages_list, messagebox, ethreads, jobs>>

---------------------------------------------------------------------------
(* Main-thread handlers that set the inputs.                               *)

\* the PDF files on disk: their pages, and whether fitz.open can read them
FileText(path) ==
    CASE path = "a.pdf" -> << <<"a">>, <<"a", " ", "a">> >>
      [] path = "b.pdf" -> << <<"a", "a">> >>
      [] OTHER -> <<>>
FileReadable(path) == path \in {"a.pdf", "b.pdf"}

\* load_pdf (lines 226-232) with the file at path chosen in the dialog
select_pdf(path) ==
    /\ pdf_path # path
    /\ pdf_path' = path
    /\ doc' = FileText(path)
    /\ readable' = FileReadable(path)
    /\ UNCHANGED <<player, pages_entry, chunk_var, engine_var, tts_manager,
                   extracted, pages_list, messagebox, ethreads, jobs>>

\* load_pdf (lines 226-232) with a file chosen in the dialog
load_pdf ==
    /\ pdf_path = ""
    /\ pdf_path' = "doc.pdf"
    /\ UNCHANGED <<doc, readable, player, pages_entry, chunk_var, engine_var, tts_manager,
                   extracted, pages_list, messagebox, ethreads, jobs>>

\* change_engine (lines 217-220) after the combobox selected eng
change_engine(eng) ==
    /\ engine_var # eng
    /\ engine_var' = eng
    /\ tts_manager' = eng
    /\ UNCHANGED <<doc, readable, player, pdf_path, pages_entry, chunk_var,
                   extracted, pages_list, messagebox, ethreads, jobs>>

---------------------------------------------------------------------------
(* PDFToAudiobookApp.convert_clicked (src lines 280-338).                  *)

\* the window one character too wide
WindowEndWide(text, start, chunk_size) == Min(start + chunk_size + 1, Len(text))

\* line 309
WindowEnd(text, start, chunk_size) == Min(start + chunk_size, Len(text))

\* a space at the cursor itself taken as the cut (>= for > in line 313)
ChunkEndAtCursor(text, start, chunk_size) ==
    LET end == Min(start + chunk_size, Len(text))
        hits == {i \in start..(end - 1) : text[i + 1] = " "}
    IN  IF end < Len(text) /\ hits # {} THEN SetMax(hits) ELSE end

\* the chunk always cut at the window edge (the back-off to a space left out)
ChunkEndRaw(text, start, chunk_size) == WindowEnd(text, start, chunk_size)

\* lines 309-314: where the chunk that begins at start ends
ChunkEnd(text, start, chunk_size) ==
    LET end == WindowEnd(text, start, chunk_size)
        next_space == rfind(text, " ", start, end)
    IN  IF end < Len(text) /\ next_space > start THEN next_space ELSE end

\* the cursor stepping over the character at the cut
NextStartSkip(end) == end + 1

\* line 316
NextStart(end) == end

\* The handler on the main thread (lines 281-291, 338), a folder chosen in the
\* dialog; at most maxJobs conversion threads are started in one run.
convert_clicked(maxJobs) ==
    /\ Len(jobs) < maxJobs
    /\ IF extracted = <<>>
       THEN /\ messagebox' = "No text"
            /\ UNCHANGED jobs
       ELSE /\ jobs' = Append(jobs,
                    [pc |-> "start", engine |-> engine_var, chunk_size |-> chunk_var,
                     pages |-> <<>>, i |-> 0, start |-> 0, chunks |-> <<>>,
                     full_text |-> <<>>, log |-> <<>>])
            /\ UNCHANGED messagebox
    /\ UNCHANGED <<doc, readable, player, pdf_path, pages_entry, chunk_var, engine_var, tts_manager,
                   extracted, pages_list, ethreads>>

\* the page the for loop of job j is at
PageNo(j) == jobs[j].pages[jobs[j].i + 1][1]
PageText(j) == jobs[j].pages[jobs[j].i + 1][2]

Event(ev, page) == [ev |-> ev, page |-> page]

\* job, lines 294-300: the for statement takes its iterator from self.extracted
\* (set_rate of line 297 changes no state of the model)
JobStart(j) ==
    /\ jobs[j].pc = "start"
    /\ jobs' = [jobs EXCEPT ![j].pc = "for", ![j].pages = extracted, ![j].i = 0,
                            ![j].log = Append(@, Event("starting", 0))]
    /\ UNCHANGED <<doc, readable, player, pdf_path, pages_entry, chunk_var, engine_var, tts_manager,
                   extracted, pages_list, messagebox, ethreads>>

\* job, lines 300-307: the next page of the iterator
JobNextPage(j) ==
    /\ jobs[j].pc = "for"
    /\ jobs[j].i < Len(jobs[j].pages)
    /\ jobs' = IF Len(PageText(j)) <= jobs[j].chunk_size
               THEN [jobs EXCEPT ![j].pc = "call", ![j].chunks = <<PageText(j)>>,
                                 ![j].start = 0]
               ELSE [jobs EXCEPT ![j].pc = "while", ![j].chunks = <<>>, ![j].start = 0]
    /\ UNCHANGED <<doc, readable, player, pdf_path, pages_entry, chunk_var, engine_var, tts_manager,
                   extracted, pages_list, messagebox, ethreads>>

\* job, lines 308-316: one iteration of the while loop
JobChunkStep(j) ==
    /\ jobs[j].pc = "while"
    /\ jobs[j].start < Len(PageText(j))
    /\ LET end == ChunkEnd(PageText(j), jobs[j].start, jobs[j].chunk_size)
       IN  jobs' = [jobs EXCEPT
                ![j].chunks = Append(@, Slice(PageText(j), jobs[j].start, end)),
                ![j].start = NextStart(end)]
    /\ UNCHANGED <<doc, readable, player, pdf_path, pages_entry, chunk_var, engine_var, tts_manager,
                   extracted, pages_list, messagebox, ethreads>>

\* job, line 308: the while condition fails
JobChunksDone(j) ==
    /\ jobs[j].pc = "while"
    /\ jobs[j].start >= Len(PageText(j))
    /\ jobs' = [jobs EXCEPT ![j].pc = "call"]
    /\ UNCHANGED <<doc, readable, player, pdf_path, pages_entry, chunk_var, engine_var, tts_manager,
                   extracted, pages_list, messagebox, ethreads>>

\* The page's outcome is logged and the for loop moves on (lines 332-334).
Outcome(j, ev) ==
    [jobs EXCEPT ![j].pc = "for", ![j].i = @ + 1, ![j].full_text = <<>>,
                 ![j].chunks = <<>>, ![j].start = 0,
                 ![j].log = Append(@, Event(ev, PageNo(j)))]

\* job, lines 318-331 up to the backend call.  save_text_to_mp3_pyttsx3 raises
\* at once when the shared manager is not a pyttsx3 one (lines 86-87).
JobSynthCall(j) ==
    /\ jobs[j].pc = "call"
    /\ LET sep == IF jobs[j].engine = "pyttsx3" THEN <<"\n", "\n">> ELSE <<" ">>
           saving == [jobs EXCEPT ![j].full_text = join(sep, jobs[j].chunks),
                                  ![j].log = Append(@, Event("saving", PageNo(j)))]
       IN  jobs' = IF jobs[j].engine = "pyttsx3" /\ tts_manager # "pyttsx3"
                   THEN [saving EXCEPT ![j].pc = "for", ![j].i = @ + 1,
                                       ![j].full_text = <<>>, ![j].chunks = <<>>,
                                       ![j].log = Append(@, Event("error", PageNo(j)))]
                   ELSE [saving EXCEPT ![j].pc = "synth"]
    /\ UNCHANGED <<doc, readable, player, pdf_path, pages_entry, chunk_var, engine_var, tts_manager,
                   extracted, pages_list, messagebox, ethreads>>

\* the backend call returns (lines 89-91 / 96-98, then 332)
SynthReturn(j) ==
    /\ jobs[j].pc = "synth"
    /\ jobs' = Outcome(j, "exported")
    /\ UNCHANGED <<doc, readable, player, pdf_path, pages_entry, chunk_var, engine_var, tts_manager,
                   extracted, pages_list, messagebox, ethreads>>

\* the exception of the backend call ending the thread (the try of line 319 left out)
SynthRaiseAbort(j) ==
    /\ jobs[j].pc = "synth"
    /\ jobs' = [jobs EXCEPT ![j].pc = "done"]
    /\ UNCHANGED <<doc, readable, player, pdf_path, pages_entry, chunk_var, engine_var, tts_manager,
                   extracted, pages_list, messagebox, ethreads>>

\* the backend call raises (lines 333-334)
SynthRaise(j) ==
    /\ jobs[j].pc = "synth"
    /\ jobs' = Outcome(j, "error")
    /\ UNCHANGED <<doc, readable, player, pdf_path, pages_entry, chunk_var, engine_var, tts_manager,
                   extracted, pages_list, messagebox, ethreads>>

\* job, lines 335-336: the iterator is exhausted
JobFinish(j) ==
    /\ jobs[j].pc = "for"
    /\ jobs[j].i = Len(jobs[j].pages)
    /\ jobs' = [jobs EXCEPT ![j].pc = "done",
                            ![j].log = Append(@, Event("finished", 0))]
    /\ messagebox' = "Done"
    /\ UNCHANGED <<doc, readable, player, pdf_path, pages_entry, chunk_var, engine_var, tts_manager,
                   extracted, pages_list, ethreads>>

---------------------------------------------------------------------------
(* The application: a document is loaded, extracted and converted.         *)

Engines == {"pyttsx3", "gTTS"}

\* the sample documents of the application run
AppDocs == { << <<"a", " ", "a">>, <<" ", "\f">>, <<"a">> >> }

Init ==
    /\ doc \in AppDocs
    /\ readable = TRUE
    /\ player = NoPlayback
    /\ pdf_path = ""
    /\ pages_entry = <<>>
    /\ chunk_var = 2
    /\ engine_var = "pyttsx3"
    /\ tts_manager = "pyttsx3"
    /\ extracted = <<>>
    /\ pages_list = <<>>
    /\ messagebox = ""
    /\ ethreads = <<>>
    /\ jobs = <<>>

Next ==
    \/ load_pdf
    \/ \E eng \in Engines : change_engine(eng)
    \/ extract_clicked(1)
    \/ \E t \in 1..Len(ethreads) : ExtractDelete(t)
    \/ \E t \in 1..Len(ethreads) : ExtractRun(t)
    \/ \E t \in 1..Len(ethreads) : ExtractIter(t)
    \/ \E t \in 1..Len(ethreads) : ExtractInsert(t)
    \/ \E t \in 1..Len(ethreads) : ExtractDone(t)
    \/ convert_clicked(MaxJobs)
    \/ \E j \in 1..Len(jobs) : JobStart(j)
    \/ \E j \in 1..Len(jobs) : JobNextPage(j)
    \/ \E j \in 1..Len(jobs) : JobChunkStep(j)
    \/ \E j \in 1..Len(jobs) : JobChunksDone(j)
    \/ \E j \in 1..Len(jobs) : JobSynthCall(j)
    \/ \E j \in 1..Len(jobs) : SynthReturn(j)
    \/ \E j \in 1..Len(jobs) : SynthRaise(j)
    \/ \E j \in 1..Len(jobs) : JobFinish(j)

Spec == Init /\ [][Next]_vars

---------------------------------------------------------------------------
(* Extraction of every small document under every short range expression.  *)

\* all strings over chars of length at most n
Strings(chars, n) == UNION {[1..k -> chars] : k \in 0..n}

RawChars == {"a", " ", "\n", "\f"}
ExprChars == {"0", "1", "2", "3", "-", "a", " "}

\* documents crossed with every range expression
RangeDocs == { << <<"a", " ", "a">>, <<>>, <<"a">> >>,
               << <<"a">>, <<"\n", "a", "\f">> >> }
\* range expressions crossed with every raw page text
FewExprs == { <<>>, <<"2">>, <<"1", "-", "2">>, <<"2", "-", "3">> }

\* a thread that has run to its end on a blank range
FinishedThread(list, d) ==
    [pc |-> "done", rng |-> NoRange, path |-> "doc.pdf",
     loaded |-> LoadedIndices(d, NoRange), result |-> list,
     iter |-> list, k |-> Len(list),
     log |-> Append(PageLog(d, 0, Len(d) - 1), [ev |-> "complete", page |-> Len(list)])]

InitExtract ==
    /\ \/ doc \in RangeDocs /\ pages_entry \in Strings(ExprChars, MaxExprLen)
       \/ /\ doc \in { << <<"a">>, raw, <<"a", "\n", "a">> >> : raw \in Strings(RawChars, MaxRawLen) }
          /\ pages_entry \in FewExprs
    /\ readable = TRUE
    /\ player = NoPlayback
    /\ pdf_path = ""
    /\ chunk_var = DefaultChunk
    /\ engine_var = "pyttsx3"
    /\ tts_manager = "pyttsx3"
    /\ extracted = <<>>
    /\ pages_list = <<>>
    /\ messagebox = ""
    /\ ethreads = <<>>
    /\ jobs = <<>>

NextExtract ==
    \/ load_pdf
    \/ extract_clicked(1)
    \/ \E t \in 1..Len(ethreads) : ExtractDelete(t)
    \/ \E t \in 1..Len(ethreads) : ExtractRun(t)
    \/ \E t \in 1..Len(ethreads) : ExtractIter(t)
    \/ \E t \in 1..Len(ethreads) : ExtractInsert(t)
    \/ \E t \in 1..Len(ethreads) : ExtractDone(t)

SpecExtract == InitExtract /\ [][NextExtract]_vars

---------------------------------------------------------------------------
(* One conversion of one extracted page: every page text extraction can     *)
(* produce, under every small chunk size.                                   *)

\* the texts extract_text_from_pdf can store: non-empty results of clean_text
CleanTexts(n) ==
    {T \in Strings({"a", " ", "\n"}, n) : T # <<>> /\ clean_text(strip(T)) = T}

\* the state after a one-page document with cleaned text T has been extracted
AfterExtraction(T, chunk_size) ==
    /\ doc = <<T>>
    /\ readable = TRUE
    /\ player = NoPlayback
    /\ pdf_path = "doc.pdf"
    /\ pages_entry = <<>>
    /\ chunk_var = chunk_size
    /\ engine_var = "pyttsx3"
    /\ tts_manager = "pyttsx3"
    /\ extracted = << <<1, T>> >>
    /\ pages_list = <<1>>
    /\ messagebox = ""
    /\ ethreads = << FinishedThread(<< <<1, T>> >>, <<T>>) >>
    /\ jobs = <<>>

InitChunk == \E T \in CleanTexts(MaxLen) : \E cs \in 1..MaxChunk : AfterExtraction(T, cs)

NextChunk ==
    \/ convert_clicked(1)
    \/ \E j \in 1..Len(jobs) : JobStart(j)
    \/ \E j \in 1..Len(jobs) : JobNextPage(j)
    \/ \E j \in 1..Len(jobs) : JobChunkStep(j)
    \/ \E j \in 1..Len(jobs) : JobChunksDone(j)
    \/ \E j \in 1..Len(jobs) : JobSynthCall(j)
    \/ \E j \in 1..Len(jobs) : SynthReturn(j)
    \/ \E j \in 1..Len(jobs) : SynthRaise(j)
    \/ \E j \in 1..Len(jobs) : JobFinish(j)

SpecChunk == InitChunk /\ [][NextChunk]_vars

---------------------------------------------------------------------------
(* The scenario of a page text of ScenarioLen characters converted with the *)
(* default chunk size: letters, with spaces and a newline at chosen offsets.*)

SpaceOffsets == {1000, ScenarioLen - DefaultChunk - 1, ScenarioLen - DefaultChunk,
                 DefaultChunk - 1, DefaultChunk}
NewlineOffsets == {DefaultChunk - 100}

ScenarioText(spaces, newlines) ==
    [i \in 1..ScenarioLen |->
        IF (i - 1) \in spaces THEN " " ELSE IF (i - 1) \in newlines THEN "\n" ELSE "a"]

InitScenario ==
    \E spaces \in SUBSET SpaceOffsets : \E newlines \in SUBSET NewlineOffsets :
        AfterExtraction(ScenarioText(spaces, newlines), DefaultChunk)

SpecScenario == InitScenario /\ [][NextChunk]_vars

---------------------------------------------------------------------------
(* Properties of the chunking loop (SpecChunk).                            *)

JobIds == 1..Len(jobs)

\* job j holds the chunks of its current page
HasChunks(j) == jobs[j].pc \in {"while", "call", "synth"}
\* the chunk list of job j's current page is complete
ChunksBuilt(j) == jobs[j].pc \in {"call", "synth"}

\* C1: the chunks of a page, concatenated in order with no separator, are
\* exactly the page text; while the loop runs they are the text up to the cursor.
C1_ChunksReassemble ==
    \A j \in JobIds :
        /\ ChunksBuilt(j) => join(<<>>, jobs[j].chunks) = PageText(j)
        /\ jobs[j].pc = "while" =>
               join(<<>>, jobs[j].chunks) = Slice(PageText(j), 0, jobs[j].start)

\* a page cut into three or more chunks, one of them at a space
C1_Witness ==
    \E j \in JobIds :
        /\ jobs[j].pc = "call"
        /\ Len(jobs[j].chunks) >= 3
        /\ \E k \in 2..Len(jobs[j].chunks) : Head(jobs[j].chunks[k]) = " "

\* text holds a run of more than n non-whitespace characters
HasLongToken(text, n) ==
    \E a \in 1..Len(text) :
        /\ a + n <= Len(text)
        /\ \A i \in a..(a + n) : ~IsSpace(text[i])

\* chunk k of job j is the last chunk of its page
IsLastChunk(j, k) ==
    /\ k = Len(jobs[j].chunks)
    /\ jobs[j].pc = "while" => jobs[j].start >= Len(PageText(j))

\* C9: every chunk is at most chunk_size long, except possibly the last chunk
\* of a page that holds an unbroken token longer than chunk_size.
C9_ChunkLength ==
    \A j \in JobIds : HasChunks(j) =>
        \A k \in 1..Len(jobs[j].chunks) :
            \/ Len(jobs[j].chunks[k]) <= jobs[j].chunk_size
            \/ IsLastChunk(j, k) /\ HasLongToken(PageText(j), jobs[j].chunk_size)

\* a page with an over-long token whose chunks include one cut at the raw window edge
C9_Witness ==
    \E j \in JobIds :
        /\ jobs[j].pc = "call"
        /\ Len(jobs[j].chunks) >= 2
        /\ HasLongToken(PageText(j), jobs[j].chunk_size)
        /\ \E k \in 1..(Len(jobs[j].chunks) - 1) :
               /\ Len(jobs[j].chunks[k]) = jobs[j].chunk_size
               /\ \A i \in 1..Len(jobs[j].chunks[k]) : ~IsSpace(jobs[j].chunks[k][i])

\* the step of job j is an iteration of the while loop whose window
\* [start, start + chunk_size) stops short of the end of the text
WindowStep(j) ==
    /\ jobs[j].pc = "while"
    /\ jobs'[j].pc = "while"
    /\ Len(jobs'[j].chunks) = Len(jobs[j].chunks) + 1
    /\ jobs[j].start + jobs[j].chunk_size < Len(PageText(j))

\* the cut at offset cut lies strictly inside a whitespace-delimited token
InsideToken(text, cut) ==
    /\ 0 < cut
    /\ cut < Len(text)
    /\ ~IsSpace(text[cut])
    /\ ~IsSpace(text[cut + 1])

\* offsets of the window of job j that hold a space character after the cursor
SpacesAfterCursor(j) ==
    {i \in (jobs[j].start + 1)..(jobs[j].start + jobs[j].chunk_size - 1) :
        PageText(j)[i + 1] = " "}

---------------------------------------------------------------------------
(* The 5000/3500 scenario (SpecScenario).                                  *)

\* offsets at or before limit that hold a whitespace character
WhitespaceUpTo(text, limit) == {i \in 0..limit : IsSpace(text[i + 1])}

FirstCut(text) ==
    LET spaces == {i \in 1..(DefaultChunk - 1) : text[i + 1] = " "}
    IN  IF spaces = {} THEN DefaultChunk ELSE SetMax(spaces)

---------------------------------------------------------------------------
(* Properties of extraction (SpecExtract).                                 *)

\* thread t has stored its result in self.extracted
HasExtracted(t) == ethreads[t].pc \in {"iter", "insert", "done"}

PageNumbers(list) == [k \in 1..Len(list) |-> list[k][1]]

\* C5: a page whose normalized text (clean_text of its raw text) is empty never
\* appears in the extracted list, and every page that appears has non-empty text.
C5_NoEmptyPages ==
    \A k \in 1..Len(extracted) :
        /\ extracted[k][2] # <<>>
        /\ extracted[k][1] \in 1..Len(doc)
        /\ clean_text(doc[extracted[k][1]]) # <<>>

\* a three-page document whose second page holds only whitespace was extracted
\* in full: pages 1 and 3 are listed, page 2 is not
C5_Witness ==
    /\ Len(ethreads) = 1
    /\ ethreads[1].pc = "done"
    /\ ~ethreads[1].rng.given
    /\ Len(doc) = 3
    /\ doc[2] # <<>>
    /\ clean_text(doc[2]) = <<>>
    /\ PageNumbers(extracted) = <<1, 3>>
    /\ pages_list = <<1, 3>>

DigitChar(n) ==
    CASE n = 0 -> "0" [] n = 1 -> "1" [] n = 2 -> "2" [] n = 3 -> "3" [] n = 4 -> "4"
      [] n = 5 -> "5" [] n = 6 -> "6" [] n = 7 -> "7" [] n = 8 -> "8" [] n = 9 -> "9"

\* the range expressions that denote pages a..b
RangeExprs(a, b) ==
    {<<DigitChar(a), "-", DigitChar(b)>>} \cup (IF a = b THEN {<<DigitChar(a)>>} ELSE {})

\* list is exactly the non-empty pages of a..b, ascending, under their source numbers
IsPagesOf(list, a, b) ==
    /\ \A k \in 1..Len(list) :
           /\ list[k][1] \in a..b
           /\ list[k][2] = clean_text(doc[list[k][1]])
    /\ \A k \in 1..(Len(list) - 1) : list[k][1] < list[k + 1][1]
    /\ \A p \in a..b : clean_text(doc[p]) # <<>> => \E k \in 1..Len(list) : list[k][1] = p

\* C6: a range "a-b" (or "a") with 1 <= a <= b <= pageCount extracts exactly the
\* non-empty pages numbered a..b, ascending, labelled with their source page
\* numbers; a blank range extracts those of 1..pageCount.
C6_RangeExtractsExactly ==
    \A t \in 1..Len(ethreads) : HasExtracted(t) =>
        /\ \A a \in 1..Len(doc) : \A b \in a..Len(doc) :
               pages_entry \in RangeExprs(a, b) => IsPagesOf(extracted, a, b)
        /\ pages_entry = <<>> => IsPagesOf(extracted, 1, Len(doc))

\* "2-2" on a document whose page 2 is not empty lists page 2 alone, as page 2
C6_Witness ==
    /\ Len(ethreads) = 1
    /\ ethreads[1].pc = "done"
    /\ pages_entry = <<"2", "-", "2">>
    /\ Len(doc) = 2
    /\ extracted = << <<2, <<"a">> >> >>
    /\ pages_list = <<2>>

IsNumber(s) == s # <<>> /\ \A i \in 1..Len(s) : s[i] \in Digits

\* entry is "<start>" or "<start>-<end>" with 1 <= start <= end
LiteralRange(entry) ==
    LET pr == strip(entry)
        dashes == {i \in 1..Len(pr) : pr[i] = "-"}
    IN  \/ dashes = {} /\ IsNumber(pr) /\ Decimal(pr) >= 1
        \/ /\ Cardinality(dashes) = 1
           /\ LET k == SetMin(dashes)
                  left == SubSeq(pr, 1, k - 1)
                  right == SubSeq(pr, k + 1, Len(pr))
              IN  /\ IsNumber(left)
                  /\ IsNumber(right)
                  /\ 1 <= Decimal(left)
                  /\ Decimal(left) <= Decimal(right)

\* C7: with a non-blank range expression that is not of the literal form in the
\* entry, no step starts an extraction thread or changes the extracted list or
\* the displayed list.
C7_InvalidRangeRejected ==
    [][(strip(pages_entry) # <<>> /\ ~LiteralRange(pages_entry))
          => UNCHANGED <<ethreads, extracted, pages_list>>]_vars

---------------------------------------------------------------------------
(* Properties of the conversion job (Spec).                                *)

IsOutcome(e) == e.ev \in {"exported", "error"}
IsAttempt(e) == e.ev = "saving"

\* the outcome records and the attempts job j has logged, in log order
Outcomes(j) == SelectSeq(jobs[j].log, IsOutcome)
Attempts(j) == SelectSeq(jobs[j].log, IsAttempt)
PageEvents(j) == SelectSeq(jobs[j].log, LAMBDA e : IsOutcome(e) \/ IsAttempt(e))

\* C2: whatever synthesis calls fail, a job logs exactly one outcome record per
\* page it has passed, and once it is done every page of its list was attempted
\* and has its one record.
C2_EveryPageRecorded ==
    \A j \in JobIds :
        /\ Len(Outcomes(j)) = jobs[j].i
        /\ \A k \in 1..Len(Outcomes(j)) : Outcomes(j)[k].page = jobs[j].pages[k][1]
        /\ jobs[j].pc = "done" =>
               /\ Len(Outcomes(j)) = Len(jobs[j].pages)
               /\ Len(Attempts(j)) = Len(jobs[j].pages)
               /\ \A k \in 1..Len(Attempts(j)) : Attempts(j)[k].page = jobs[j].pages[k][1]

\* a finished job over two pages whose first page failed and whose second was exported
C2_Witness ==
    \E j \in JobIds :
        /\ jobs[j].pc = "done"
        /\ Len(jobs[j].pages) = 2
        /\ Outcomes(j) = <<Event("error", 1), Event("exported", 3)>>

\* the conversion threads that have not finished
Running == {j \in JobIds : jobs[j].pc # "done"}
\* the conversion threads inside a backend call
Synthesizing == {j \in JobIds : jobs[j].pc = "synth"}

\* C3: at most one conversion job runs at any instant and at most one backend
\* call is in progress at any instant.
C3_SingleJob ==
    /\ Cardinality(Running) <= 1
    /\ Cardinality(Synthesizing) <= 1

\* C4: a job attempts its pages in ascending page-number order, which is the
\* order of the extracted list; each attempt is followed by the outcome of the
\* same page before the next attempt is logged.
C4_AscendingPageOrder ==
    \A j \in JobIds :
        LET ev == PageEvents(j)
        IN  /\ \A k \in 1..Len(ev) :
                   IF k % 2 = 1
                   THEN /\ IsAttempt(ev[k])
                        /\ ev[k].page = jobs[j].pages[(k + 1) \div 2][1]
                        /\ k > 2 => ev[k - 2].page < ev[k].page
                   ELSE /\ IsOutcome(ev[k])
                        /\ ev[k].page = ev[k - 1].page
            /\ jobs[j].pc = "synth" <=> Len(ev) % 2 = 1
            /\ \A k \in 1..(Len(jobs[j].pages) - 1) :
                   jobs[j].pages[k][1] < jobs[j].pages[k + 1][1]

\* a finished job that handled page 1 and then page 3
C4_Witness ==
    \E j \in JobIds :
        /\ jobs[j].pc = "done"
        /\ PageEvents(j) = <<Event("saving", 1), Event("exported", 1),
                             Event("saving", 3), Event("error", 3)>>

---------------------------------------------------------------------------
(* One conversion under fair scheduling of its thread (SpecLive).          *)

\* the state after document d has been extracted in full
AfterExtractingDoc(d, chunk_size) ==
    /\ doc = d
    /\ readable = TRUE
    /\ player = NoPlayback
    /\ pdf_path = "doc.pdf"
    /\ pages_entry = <<>>
    /\ chunk_var = chunk_size
    /\ engine_var = "pyttsx3"
    /\ tts_manager = "pyttsx3"
    /\ extracted = extract_text_from_pdf(d, NoRange)
    /\ pages_list = [k \in 1..Len(extract_text_from_pdf(d, NoRange)) |->
                        extract_text_from_pdf(d, NoRange)[k][1]]
    /\ messagebox = ""
    /\ ethreads = << FinishedThread(extract_text_from_pdf(d, NoRange), d) >>
    /\ jobs = <<>>

\* one-page documents of every cleaned text, and documents of several pages
InitLive ==
    \E cs \in 1..MaxChunk :
        \/ \E T \in CleanTexts(MaxLen) : AfterExtractingDoc(<<T>>, cs)
        \/ \E d \in AppDocs : AfterExtractingDoc(d, cs)

\* any step of conversion thread j
JobStep(j) ==
    /\ j \in 1..Len(jobs)
    /\ \/ JobStart(j)
       \/ JobNextPage(j)
       \/ JobChunkStep(j)
       \/ JobChunksDone(j)
       \/ JobSynthCall(j)
       \/ SynthReturn(j)
       \/ SynthRaise(j)
       \/ JobFinish(j)

NextLive ==
    \/ convert_clicked(1)
    \/ \E eng \in Engines : change_engine(eng)
    \/ \E j \in 1..Len(jobs) : JobStart(j)
    \/ \E j \in 1..Len(jobs) : JobNextPage(j)
    \/ \E j \in 1..Len(jobs) : JobChunkStep(j)
    \/ \E j \in 1..Len(jobs) : JobChunksDone(j)
    \/ \E j \in 1..Len(jobs) : JobSynthCall(j)
    \/ \E j \in 1..Len(jobs) : SynthReturn(j)
    \/ \E j \in 1..Len(jobs) : SynthRaise(j)
    \/ \E j \in 1..Len(jobs) : JobFinish(j)

\* A started thread keeps being scheduled, and a backend call in progress
\* returns or raises.
SpecLive ==
    /\ InitLive
    /\ [][NextLive]_vars
    /\ \A j \in 1..MaxJobs : WF_vars(JobStep(j))

\* job j has logged "Conversion finished." with an outcome for every page
Completed(j) ==
    /\ j <= Len(jobs)
    /\ jobs[j].pc = "done"
    /\ jobs[j].log # <<>>
    /\ jobs[j].log[Len(jobs[j].log)] = Event("finished", 0)
    /\ Len(SelectSeq(jobs[j].log, LAMBDA e : e.ev \in {"exported", "error"}))
           = Len(jobs[j].pages)

\* C11: every iteration of the chunking loop moves the cursor forward, and a
\* started conversion job eventually logs "Conversion finished." with every
\* page attempted, whatever pages fail.
C11_JobCompletes ==
    /\ [][\A j \in 1..Len(jobs) :
             (jobs[j].pc = "while" /\ Len(jobs'[j].chunks) = Len(jobs[j].chunks) + 1)
             => jobs'[j].start > jobs[j].start]_vars
    /\ \A j \in 1..MaxJobs : (j <= Len(jobs)) ~> Completed(j)

\* a job finished after a failed page and a page cut into several chunks
C11_Witness ==
    /\ Completed(1)
    /\ \E k \in 1..Len(jobs[1].log) : jobs[1].log[k].ev = "error"
    /\ \E k \in 1..Len(jobs[1].log) : jobs[1].log[k].ev = "exported"
    /\ \E k \in 1..Len(jobs[1].pages) : Len(jobs[1].pages[k][2]) > jobs[1].chunk_size

---------------------------------------------------------------------------
(* The application with several files on disk, one of which cannot be      *)
(* opened, two extraction threads and one conversion job.                  *)

MaxExtracts == 2

Paths == {"a.pdf", "b.pdf", "bad.pdf"}

\* PDFToAudiobookApp.__init__ (lines 137-146): nothing selected yet
InitFiles ==
    /\ doc = <<>>
    /\ readable = FALSE
    /\ player = NoPlayback
    /\ pdf_path = ""
    /\ pages_entry = <<>>
    /\ chunk_var = 2
    /\ engine_var = "pyttsx3"
    /\ tts_manager = "pyttsx3"
    /\ extracted = <<>>
    /\ pages_list = <<>>
    /\ messagebox = ""
    /\ ethreads = <<>>
    /\ jobs = <<>>

NextReady ==
    \/ \E path \in Paths : select_pdf(path)
    \/ extract_clicked(MaxExtracts)
    \/ \E t \in 1..Len(ethreads) : ExtractDelete(t)
    \/ \E t \in 1..Len(ethreads) : ExtractRun(t)
    \/ \E t \in 1..Len(ethreads) : ExtractFail(t)
    \/ \E t \in 1..Len(ethreads) : ExtractIter(t)
    \/ \E t \in 1..Len(ethreads) : ExtractInsert(t)
    \/ \E t \in 1..Len(ethreads) : ExtractDone(t)
    \/ convert_clicked(1)
    \/ \E j \in 1..Len(jobs) : JobStart(j)
    \/ \E j \in 1..Len(jobs) : JobNextPage(j)
    \/ \E j \in 1..Len(jobs) : JobChunkStep(j)
    \/ \E j \in 1..Len(jobs) : JobChunksDone(j)
    \/ \E j \in 1..Len(jobs) : JobSynthCall(j)
    \/ \E j \in 1..Len(jobs) : SynthReturn(j)
    \/ \E j \in 1..Len(jobs) : SynthRaise(j)
    \/ \E j \in 1..Len(jobs) : JobFinish(j)

SpecReady == InitFiles /\ [][NextReady]_vars

\* extraction thread t opened its document and stored the pages it read
Succeeded(t) ==
    /\ ethreads[t].pc \in {"iter", "insert", "done"}
    /\ ethreads[t].log # <<[ev |-> "error", page |-> 0]>>

\* extraction thread t ended with "Extraction error"
Failed(t) ==
    /\ ethreads[t].pc = "done"
    /\ ethreads[t].log = <<[ev |-> "error", page |-> 0]>>

\* some extraction read the document that is selected now, and no extraction
\* requested after it has failed (extractions still running are not held
\* against the request)
Ready ==
    \E t \in 1..Len(ethreads) :
        /\ Succeeded(t)
        /\ ethreads[t].path = pdf_path
        /\ \A u \in (t + 1)..Len(ethreads) : ~Failed(u)

\* C12: a Convert request starts a job, which then synthesizes the pages of the
\* extracted list, only when the most recent extraction of the currently
\* selected document succeeded: never after an extraction that failed to open
\* the document, and never after another document was selected and not yet
\* extracted.
C12_ConvertOnlyWhenReady ==
    [][Len(jobs') > Len(jobs) => Ready]_vars

\* a job synthesizes a page although the last extraction failed to open the
\* selected document
C12_LeftoverSynthesized ==
    /\ Len(jobs) > 0
    /\ jobs[1].pc = "synth"
    /\ Len(ethreads) > 0
    /\ ethreads[Len(ethreads)].pc = "done"
    /\ ethreads[Len(ethreads)].log = <<[ev |-> "error", page |-> 0]>>
    /\ pdf_path = "bad.pdf"

---------------------------------------------------------------------------
(* extract_text_from_pdf called with every pair of 0-based page indices,   *)
(* on files that open and on files that do not.                            *)

MaxIndex == 3

ClampDocs == RangeDocs \cup { <<>>, << <<"a">> >> }

InitClamp ==
    /\ doc \in ClampDocs
    /\ readable \in BOOLEAN
    /\ player = NoPlayback
    /\ pdf_path = "doc.pdf"
    /\ pages_entry = <<>>
    /\ chunk_var = DefaultChunk
    /\ engine_var = "pyttsx3"
    /\ tts_manager = "pyttsx3"
    /\ extracted = <<>>
    /\ pages_list = <<>>
    /\ messagebox = ""
    /\ \E s \in (0 - MaxIndex)..MaxIndex, e \in (0 - MaxIndex)..MaxIndex :
          ethreads = << [pc |-> "delete",
                         rng |-> [ok |-> TRUE, given |-> TRUE,
                                  start_page |-> s, end_page |-> e],
                         path |-> "", loaded |-> <<>>, result |-> <<>>,
                         iter |-> <<>>, k |-> 0, log |-> <<>>] >>
    /\ jobs = <<>>

NextClamp ==
    \/ \E t \in 1..Len(ethreads) : ExtractDelete(t)
    \/ \E t \in 1..Len(ethreads) : ExtractRun(t)
    \/ \E t \in 1..Len(ethreads) : ExtractFail(t)
    \/ \E t \in 1..Len(ethreads) : ExtractIter(t)
    \/ \E t \in 1..Len(ethreads) : ExtractInsert(t)
    \/ \E t \in 1..Len(ethreads) : ExtractDone(t)

SpecClamp == InitClamp /\ [][NextClamp]_vars

\* the requested range holds no page of d: inverted, or wholly outside
EmptyRequest(d, rng) ==
    \/ rng.start_page > rng.end_page
    \/ rng.end_page < 0
    \/ rng.start_page >= Len(d)

\* the indices of d the request covers, ascending
RequestedPages(d, rng) ==
    { i \in 0..(Len(d) - 1) : rng.start_page <= i /\ i <= rng.end_page }

\* C13: whatever 0-based start and end are requested (negative, at or beyond
\* the page count, start after end), every page index extract_text_from_pdf
\* loads lies in 0..pageCount-1; the loaded indices are the requested ones that
\* exist, in ascending order; a file that opens is extracted without an error;
\* and a range wholly outside the document or inverted loads no page and gives
\* the empty list.
C13_LoadedPagesInRange ==
    \A t \in 1..Len(ethreads) :
        ethreads[t].pc \in {"iter", "insert", "done"} =>
            /\ \A k \in 1..Len(ethreads[t].loaded) :
                  ethreads[t].loaded[k] \in 0..(Len(doc) - 1)
            /\ readable =>
                  /\ ~Failed(t)
                  /\ { ethreads[t].loaded[k] : k \in 1..Len(ethreads[t].loaded) }
                        = RequestedPages(doc, ethreads[t].rng)
                  /\ \A k \in 1..(Len(ethreads[t].loaded) - 1) :
                        ethreads[t].loaded[k] < ethreads[t].loaded[k + 1]
                  /\ EmptyRequest(doc, ethreads[t].rng) =>
                        /\ ethreads[t].loaded = <<>>
                        /\ ethreads[t].result = <<>>
                        /\ extracted = <<>>

\* a finished extraction that was asked for a range reaching beyond both ends
\* of a document loaded every page of it
C13_Witness ==
    /\ Len(ethreads) = 1
    /\ ethreads[1].pc = "done"
    /\ ethreads[1].rng.start_page < 0
    /\ ethreads[1].rng.end_page >= Len(doc)
    /\ Len(doc) > 1
    /\ Len(ethreads[1].loaded) = Len(doc)
    /\ extracted # <<>>

---------------------------------------------------------------------------
(* Engine selection during a job (specification Spec).                     *)

\* C14: every page of a job is synthesized by the backend that was selected
\* when the job started: whenever a job makes the synthesis call for a page,
\* that backend takes the call, whatever engine has been selected since; the
\* page's outcome is the one the backend gives.
C14_JobKeepsBackend ==
    [][\A j \in 1..Len(jobs) :
          (jobs[j].pc = "call" /\ jobs'[j].pc # "call") => jobs'[j].pc = "synth"]_vars

\* a job started with pyttsx3 has recorded an error for a page while gTTS is
\* the selected engine
C14_ErrorAfterSwitch ==
    \E j \in 1..Len(jobs) :
        /\ jobs[j].engine = "pyttsx3"
        /\ tts_manager = "gTTS"
        /\ \E k \in 1..Len(jobs[j].log) : jobs[j].log[k].ev = "error"

---------------------------------------------------------------------------
(* Two extraction requests on readable files, the second possibly made     *)
(* while the first is still running.                                       *)

ReadablePaths == { path \in Paths : FileReadable(path) }

NextRace ==
    \/ \E path \in ReadablePaths : select_pdf(path)
    \/ extract_clicked(MaxExtracts)
    \/ \E t \in 1..Len(ethreads) : ExtractDelete(t)
    \/ \E t \in 1..Len(ethreads) : ExtractRun(t)
    \/ \E t \in 1..Len(ethreads) : ExtractIter(t)
    \/ \E t \in 1..Len(ethreads) : ExtractInsert(t)
    \/ \E t \in 1..Len(ethreads) : ExtractDone(t)

SpecRace == InitFiles /\ [][NextRace]_vars

\* every requested extraction has run to its end
AllExtractionsFinished ==
    /\ Len(ethreads) > 0
    /\ \A t \in 1..Len(ethreads) : ethreads[t].pc = "done"

\* C15: once every extraction thread has finished, the stored extracted list
\* is the result of one of the requested extractions, and the displayed list
\* has exactly one entry per stored page, in the same order.
C15_OneExtractionShown ==
    AllExtractionsFinished =>
        /\ \E t \in 1..Len(ethreads) : extracted = ethreads[t].result
        /\ pages_list = PageNumbers(extracted)

---------------------------------------------------------------------------
(* Playback of the files a conversion job has exported.                    *)

\* the pages whose page_<n>.mp3 a job has written (line 332)
Exported ==
    { page \in 1..MaxRawLen :
        \E j \in 1..Len(jobs) : \E k \in 1..Len(jobs[j].log) :
            jobs[j].log[k] = Event("exported", page) }

\* play_selected_mp3 (lines 340-344) with an exported file chosen in the dialog
play_selected_mp3(page) ==
    /\ page \in Exported
    /\ play(page)

InitPlayer == \E d \in AppDocs : AfterExtractingDoc(d, 2)

NextPlayer ==
    \/ convert_clicked(1)
    \/ \E j \in 1..Len(jobs) : JobStart(j)
    \/ \E j \in 1..Len(jobs) : JobNextPage(j)
    \/ \E j \in 1..Len(jobs) : JobChunkStep(j)
    \/ \E j \in 1..Len(jobs) : JobChunksDone(j)
    \/ \E j \in 1..Len(jobs) : JobSynthCall(j)
    \/ \E j \in 1..Len(jobs) : SynthReturn(j)
    \/ \E j \in 1..Len(jobs) : SynthRaise(j)
    \/ \E j \in 1..Len(jobs) : JobFinish(j)
    \/ \E page \in Exported : play_selected_mp3(page)
    \/ stop
    \/ pause
    \/ MusicEnds

SpecPlayer == InitPlayer /\ [][NextPlayer]_vars

\* C16: after any sequence of play, stop and pause operations the Player's
\* paused flag agrees with the mixer, so that a Pause/Resume request made while
\* a file is playing pauses that playback and does not issue a resume.
\* (Only Player.pause changes the flag, so a step that changes it is a
\* Pause/Resume request.)
C16_PausePausesPlayback ==
    [][(player'.paused # player.paused /\ player.music = "playing")
          => (player'.paused /\ player'.music = "paused")]_vars
====
